---- MODULE Spec2Model ----
(***************************************************************************)
(* List-versus-vector benchmark harness (src/lvv/lvv.h, src/lvv/lvv.cpp).  *)
(*                                                                         *)
(* Three specifications share the variables below:                         *)
(*   Spec      the program: test_block sweeping N, test_n starting the two *)
(*             workers (test_n_) and waiting on their futures;             *)
(*   SpecCore  test_n_core_ run on a VectorAdaptor and a ListAdaptor with  *)
(*             the same universe and the same removal plan;                *)
(*   SpecOps   the IntegerSequence operations of the two adaptors applied  *)
(*             in any order to initially empty sequences.                  *)
(* Assertions are modelled as enabled (a checked build): a failed assert   *)
(* aborts the process.                                                     *)
(***************************************************************************)
EXTENDS Integers, Sequences, FiniteSets, TLC

VARIABLES
    INT_SET,          \* the universe, as the sequence of its iteration order
    gen,              \* the global generator: who seeded it last, who drew since
    seq,              \* seq[w]: contents of the worker's IntegerSequence (v / l)
    wpc,              \* wpc[w]: position of the worker inside test_n_ / test_n_core_
    run,              \* run[w]: loop variable i of test_n_
    removal_indices,  \* removal_indices[w]: the removal plan of the current run
    back,             \* back[w]: loop variable of the plan generation (size_t)
    pos,              \* pos[w]: loop position inside test_n_core_
    avg,              \* avg[w]: accumulated duration
    promise,          \* promise[w]: shared state of the promise/future pair
    mpc,              \* position of the main thread (main/test_block/test_n)
    num_vals,         \* argument of the current test_n call (i of test_block)
    block_end,        \* argument end of test_block
    durations,        \* the pair test_n has read from the futures so far
    output,           \* rows written to the output stream
    failed,           \* an assertion failed: the process has aborted
    ub,               \* undefined behaviour has been executed
    lastOp,           \* SpecOps: the last IntegerSequence call made on v and l
    inserted,         \* SpecOps: values given to insert_numerical so far
    onlyInserts,      \* SpecOps: only insert_numerical of distinct values so far
    passes,           \* passes[w]: calls of test_n_core_ made by the worker's test_n_
    block_start,      \* argument start of test_block
    argv,             \* SpecArgs: the argument vector of main
    exit_code,        \* SpecArgs: how the process ended ("none" while it runs)
    cerr,             \* SpecArgs: the message written to the error stream
    outfile,          \* SpecArgs: out.csv has been opened
    int_db,           \* SpecFetch: random_ints.txt, its lines or "absent"
    min_num_ints,     \* SpecFetch: argument of fetch_int_set
    fpc,              \* SpecFetch: position inside fetch_int_set
    db_s,             \* SpecFetch: the set s of read_int_db, "nullopt" if not opened
    gen_s             \* SpecFetch: the set s of generate_n_random_ints

vars == <<INT_SET, gen, seq, wpc, run, removal_indices, back, pos, avg,
          promise, mpc, num_vals, block_end, durations, output, failed, ub,
          lastOp, inserted, onlyInserts, passes, block_start, argv,
          exit_code, cerr, outfile, int_db, min_num_ints, fpc, db_s, gen_s>>

argVars == <<argv, exit_code, cerr, outfile>>

fetchVars == <<int_db, min_num_ints, fpc, db_s, gen_s>>

(***************************************************************************)
(* Bounds of the model                                                     *)
(***************************************************************************)
MaxTests == 2        \* largest sweep end (stands for MAX_TESTS)
MaxVal == 2          \* Spec: the integers of the universe are 1..MaxVal
SizeBits == 3        \* width of size_t in the model
MaxOps == 4          \* SpecOps: longest sequence built
OpsMaxVal == 3       \* SpecOps: the integers handed to the operations are 1..OpsMaxVal
CoreMaxVal == 5      \* SpecCore: the integers of the universe are 1..CoreMaxVal
CoreMaxLen == 4      \* SpecCore: longest universe and longest removal plan
PlanMaxN == 4        \* SpecPlan: largest N whose plan is generated
MaxArgLen == 2       \* SpecArgs: longest command-line argument, in characters
MaxDbLines == 2      \* SpecFetch: most lines of the pool file
MaxMinInts == 3      \* SpecFetch: largest min_num_ints
MaxInt == 3          \* SpecFetch: the integers generated are -MaxInt-1..MaxInt

(***************************************************************************)
(* Program constants                                                       *)
(***************************************************************************)
DEFAULT_RUNS_PER_TEST == 3

SIZE_MAX == 2^SizeBits - 1

Workers == {"vec", "list"}

OpsValues == 1..OpsMaxVal

\* end - start of a timed pass: the clock reads a short or a long pass
Durations == {1, 2}

NoOp == [op |-> "none", arg |-> 0]

(***************************************************************************)
(* Helpers on sequences                                                    *)
(***************************************************************************)
Range(s) == {s[i] : i \in DOMAIN s}

IsInjective(s) == \A i, j \in DOMAIN s : i # j => s[i] # s[j]

InjectiveSeqs(S, n) == {s \in [1..n -> S] : IsInjective(s)}

\* an unordered_set iterates in an unspecified order.  ZigZag is the
\* iteration order MaxVal, 1, MaxVal - 1, 2, ... : inserting the values
\* in this order puts them at the front, in the middle and next to the end
ZigZag == [i \in 1..MaxVal |-> IF i % 2 = 1 THEN MaxVal - (i \div 2) ELSE i \div 2]

\* the universes of Spec: of every size up to MaxVal, iterating as ZigZag
Universes == {SubSeq(ZigZag, 1, n) : n \in 0..MaxVal}

StrictlyAscending(s) == \A i \in 1..(Len(s) - 1) : s[i] < s[i + 1]

\* main's arguments and fetch_int_set are not part of this specification
IdleArgs ==
    /\ argv = <<>>
    /\ exit_code = "none"
    /\ cerr = "none"
    /\ outfile = FALSE

\* std::nullopt, and an optional holding the set s
nullopt == [has_value |-> FALSE, s |-> {}]

Some(s) == [has_value |-> TRUE, s |-> s]

\* no file at INT_DB_REL_PATH, and a file there with the given lines
NoFile == [opens |-> FALSE, lines |-> <<>>]

FileOf(ls) == [opens |-> TRUE, lines |-> ls]

IdleFetch ==
    /\ int_db = NoFile
    /\ min_num_ints = 0
    /\ fpc = "idle"
    /\ db_s = nullopt
    /\ gen_s = {}

(***************************************************************************)
(* utils::insert_in_numerical_order and the two adaptors (lvv.h)           *)
(* A std::vector is modelled by index arithmetic on its elements, a        *)
(* std::list by traversal from the head, as the code reaches positions.    *)
(***************************************************************************)
\* vector::insert(begin + it, n): the elements from it on move up by one
VectorInsertAt(v, it, n) ==
    [j \in 1..(Len(v) + 1) |->
        IF j <= it THEN v[j] ELSE IF j = it + 1 THEN n ELSE v[j - 1]]

\* vector::erase(begin + i): the elements after i move down by one
VectorEraseAt(v, i) ==
    [j \in 1..(Len(v) - 1) |-> IF j <= i THEN v[j] ELSE v[j + 1]]

\* while(it != v.end() && *it < n) { ++it; }   (it counted from v.begin())
RECURSIVE VectorScan(_, _, _)
VectorScan(v, n, it) ==
    IF it # Len(v) /\ v[it + 1] < n THEN VectorScan(v, n, it + 1) ELSE it

\* variant: the scan starts at the second element
insert_in_numerical_order_vector_ScanFromSecond(v, n) ==
    IF v = <<>> THEN Append(v, n)
    ELSE VectorInsertAt(v, VectorScan(v, n, 1), n)

insert_in_numerical_order_vector(v, n) ==
    IF v = <<>> THEN Append(v, n)
    ELSE VectorInsertAt(v, VectorScan(v, n, 0), n)

\* variant: the comparison of the scan is reversed
RECURSIVE ListScanInsert_Reversed(_, _)
ListScanInsert_Reversed(l, n) ==
    IF l # <<>> /\ Head(l) > n
    THEN <<Head(l)>> \o ListScanInsert_Reversed(Tail(l), n)
    ELSE <<n>> \o l

\* while(it != l.end() && *it < n) { ++it; }  l.insert(it, n);
\* the nodes passed by the iterator stay, n is linked in before *it
RECURSIVE ListScanInsert(_, _)
ListScanInsert(l, n) ==
    IF l # <<>> /\ Head(l) < n
    THEN <<Head(l)>> \o ListScanInsert(Tail(l), n)
    ELSE <<n>> \o l

insert_in_numerical_order_list(l, n) ==
    IF l = <<>> THEN Append(l, n) ELSE ListScanInsert(l, n)

\* variant: the iterator is not advanced, the first node is erased
ListAdaptor_remove_Front(l, i) == Tail(l)

\* for(size_t j = 0; j < i; ++j) { ++it; }  l.erase(it);
RECURSIVE ListAdaptor_remove(_, _)
ListAdaptor_remove(l, i) ==
    IF i = 0 THEN Tail(l) ELSE <<Head(l)>> \o ListAdaptor_remove(Tail(l), i - 1)

\* variant: the element after position i is erased (the last one at the end)
VectorAdaptor_remove_Next(v, i) == VectorEraseAt(v, i + 1)

VectorAdaptor_remove(v, i) == VectorEraseAt(v, i)

VectorAdaptor_push_front(v, n) == VectorInsertAt(v, 0, n)

ListAdaptor_push_front(l, n) == <<n>> \o l

\* variant: insert_numerical puts n at the front
insert_numerical_AtFront(w, s, n) == <<n>> \o s

\* virtual dispatch on the adaptor held by worker w
insert_numerical(w, s, n) ==
    IF w = "vec" THEN insert_in_numerical_order_vector(s, n)
    ELSE insert_in_numerical_order_list(s, n)

push_back(w, s, n) == Append(s, n)

push_front(w, s, n) ==
    IF w = "vec" THEN VectorAdaptor_push_front(s, n)
    ELSE ListAdaptor_push_front(s, n)

\* variant: ListAdaptor::remove walks to position i but erases nothing
remove_ListKeeps(w, s, i) ==
    IF w = "vec" THEN VectorAdaptor_remove(s, i) ELSE s

remove(w, s, i) ==
    IF w = "vec" THEN VectorAdaptor_remove(s, i) ELSE ListAdaptor_remove(s, i)

\* erasing at or past end() is undefined: the sequence may be left as it
\* is or lose its last element (and the process may crash, see the actions)
RemoveUndefined(s) == {s} \cup (IF s = <<>> THEN {} ELSE {SubSeq(s, 1, Len(s) - 1)})

\* the sequences remove(i) may leave behind
RemoveOutcomes(w, s, i) ==
    IF i < Len(s) THEN {remove(w, s, i)} ELSE RemoveUndefined(s)

(***************************************************************************)
(* utils::random_size_t(lo, hi) is called by test_n_ but defined nowhere   *)
(* in the sources; it is taken to return any value of [lo, hi].            *)
(***************************************************************************)
random_size_t(lo, hi) == lo..hi

(***************************************************************************)
(* The worker: test_n_ with test_n_core_ inlined (lvv.cpp)                 *)
(***************************************************************************)
Running == failed = "no"

\* variant: the plan starts with num_vals + 1
InitialPlan_PlusOne(n) == <<n + 1>>

\* vector<size_t> removal_indices{num_vals};  an initializer list of one element
InitialPlan(n) == <<n>>

\* size_t back = num_vals - 1  and  back--  (unsigned, wraps around)
SizeDec(x) == (x - 1) % (2^SizeBits)

\* variant: the generation loop is written  back > 0
PlanLoopCond_StopsAtZero(b) == b > 0 /\ b < SIZE_MAX

\* the loop condition of the plan generation
PlanLoopCond(b) == b < SIZE_MAX

\* promise::set_value
set_value(p, val) == [sets |-> p.sets + 1, value |-> val]

\* variant: get returns whatever the shared state holds, without waiting
FutureReady_NoWait(p) == TRUE

\* future::get blocks until the shared state holds a value
FutureReady(p) == p.sets >= 1

\* variant: the removal loop stops one index short of the end of the plan
CoreNext_ShortRemoval(w, phase, p) ==
    IF phase = "remove"
    THEN (IF p < Len(removal_indices[w]) - 1 THEN "remove" ELSE "timed")
    ELSE IF p < Len(removal_indices[w]) THEN phase
    ELSE IF 0 < Len(removal_indices[w]) THEN "remove"
    ELSE "timed"

\* position of a worker after the step at position p of a core loop
CoreNext(w, phase, p) ==
    IF p < Len(removal_indices[w]) THEN phase
    ELSE IF phase = "insert" /\ 0 < Len(removal_indices[w]) THEN "remove"
    ELSE "timed"

\* loop head of test_n_, i < num_runs: gen.seed(...) and the plan's declaration
Reseed(w) ==
    /\ Running
    /\ wpc[w] = "loop"
    /\ run[w] < DEFAULT_RUNS_PER_TEST
    /\ gen' = [seededBy |-> w, usedBy |-> {}]
    /\ removal_indices' = [removal_indices EXCEPT ![w] = InitialPlan(num_vals)]
    /\ back' = [back EXCEPT ![w] = SizeDec(num_vals)]
    /\ wpc' = [wpc EXCEPT ![w] = "gen"]
    /\ UNCHANGED <<INT_SET, seq, run, pos, avg, promise, mpc, num_vals,
                   block_end, durations, output, failed, ub, lastOp,
                   inserted, onlyInserts, passes, block_start,
                   argVars, fetchVars>>

\* one iteration of the plan generation loop
Draw(w) ==
    /\ Running
    /\ wpc[w] = "gen"
    /\ PlanLoopCond(back[w])
    /\ \E r \in random_size_t(0, back[w]) :
          removal_indices' = [removal_indices EXCEPT ![w] = Append(@, r)]
    /\ back' = [back EXCEPT ![w] = SizeDec(@)]
    /\ gen' = [gen EXCEPT !.usedBy = @ \cup {w}]
    /\ UNCHANGED <<INT_SET, seq, wpc, run, pos, avg, promise, mpc, num_vals,
                   block_end, durations, output, failed, ub, lastOp,
                   inserted, onlyInserts, passes, block_start,
                   argVars, fetchVars>>

\* end of the generation loop and the sanity check
\* assert(removal_indices.at(removal_indices.size() - 1) == 0)
SanityCheck(w) ==
    /\ Running
    /\ wpc[w] = "gen"
    /\ ~PlanLoopCond(back[w])
    /\ IF /\ Len(removal_indices[w]) >= 1
          /\ removal_indices[w][Len(removal_indices[w])] = 0
       THEN wpc' = [wpc EXCEPT ![w] = "core"] /\ failed' = failed
       ELSE wpc' = wpc /\ failed' = "assert"
    /\ UNCHANGED <<INT_SET, gen, seq, run, removal_indices, back, pos, avg,
                   promise, mpc, num_vals, block_end, durations, output, ub,
                   lastOp, inserted, onlyInserts, passes, block_start,
                   argVars, fetchVars>>

\* entry of test_n_core_: assert(INT_SET.size() >= num_vals) with
\* num_vals = removal_indices.size()
CoreEnter(w) ==
    /\ Running
    /\ wpc[w] = "core"
    /\ IF Len(INT_SET) >= Len(removal_indices[w])
       THEN /\ wpc' = [wpc EXCEPT ![w] = CoreNext(w, "insert", 0)]
            /\ failed' = failed
       ELSE wpc' = wpc /\ failed' = "assert"
    /\ pos' = [pos EXCEPT ![w] = 0]
    /\ passes' = [passes EXCEPT ![w] = @ + 1]
    /\ UNCHANGED <<INT_SET, gen, seq, run, removal_indices, back, avg,
                   promise, mpc, num_vals, block_end, durations, output, ub,
                   lastOp, inserted, onlyInserts, block_start,
                   argVars, fetchVars>>

\* variant: both threads were handed the same sequence
CoreInsert_SameSequence(w) ==
    /\ Running
    /\ wpc[w] = "insert"
    /\ seq' = [x \in Workers |-> insert_numerical(x, seq[x], INT_SET[pos[w] + 1])]
    /\ IF CoreNext(w, "insert", pos[w] + 1) = "insert"
       THEN pos' = [pos EXCEPT ![w] = @ + 1] /\ wpc' = wpc
       ELSE /\ pos' = [pos EXCEPT ![w] = 0]
            /\ wpc' = [wpc EXCEPT ![w] = "remove"]
    /\ UNCHANGED <<INT_SET, gen, run, removal_indices, back, avg, promise,
                   mpc, num_vals, block_end, durations, output, failed, ub,
                   lastOp, inserted, onlyInserts, passes, block_start,
                   argVars, fetchVars>>

\* one iteration of  for(i < num_vals) seq.insert_numerical(*itr++)
CoreInsert(w) ==
    /\ Running
    /\ wpc[w] = "insert"
    /\ seq' = [seq EXCEPT ![w] = insert_numerical(w, @, INT_SET[pos[w] + 1])]
    /\ IF CoreNext(w, "insert", pos[w] + 1) = "insert"
       THEN pos' = [pos EXCEPT ![w] = @ + 1] /\ wpc' = wpc
       ELSE /\ pos' = [pos EXCEPT ![w] = 0]
            /\ wpc' = [wpc EXCEPT ![w] = "remove"]
    /\ UNCHANGED <<INT_SET, gen, run, removal_indices, back, avg, promise,
                   mpc, num_vals, block_end, durations, output, failed, ub,
                   lastOp, inserted, onlyInserts, passes, block_start,
                   argVars, fetchVars>>

\* one iteration of  for(size_t i: removal_indices) seq.remove(i)
CoreRemove(w) ==
    /\ Running
    /\ wpc[w] = "remove"
    /\ LET i == removal_indices[w][pos[w] + 1] IN
          /\ \E s \in RemoveOutcomes(w, seq[w], i) :
                seq' = [seq EXCEPT ![w] = s]
          /\ IF i < Len(seq[w])
             THEN ub' = ub /\ failed' = failed
             ELSE ub' = TRUE /\ failed' \in {failed, "crash"}
    /\ pos' = [pos EXCEPT ![w] = @ + 1]
    /\ wpc' = [wpc EXCEPT ![w] = CoreNext(w, "remove", pos[w] + 1)]
    /\ UNCHANGED <<INT_SET, gen, run, removal_indices, back, avg, promise,
                   mpc, num_vals, block_end, durations, output,
                   lastOp, inserted, onlyInserts, passes, block_start,
                   argVars, fetchVars>>

\* variant: the first pass is a warm-up whose duration is not added
Timed_DiscardFirst(w) ==
    /\ Running
    /\ wpc[w] = "timed"
    /\ \E d \in Durations :
          avg' = [avg EXCEPT ![w] = IF run[w] = 0 THEN @ ELSE @ + d]
    /\ run' = [run EXCEPT ![w] = @ + 1]
    /\ wpc' = [wpc EXCEPT ![w] = "loop"]
    /\ removal_indices' = [removal_indices EXCEPT ![w] = <<>>]
    /\ back' = [back EXCEPT ![w] = 0]
    /\ pos' = [pos EXCEPT ![w] = 0]
    /\ UNCHANGED <<INT_SET, gen, seq, promise,
                   mpc, num_vals, block_end, durations, output, failed, ub,
                   lastOp, inserted, onlyInserts, passes, block_start,
                   argVars, fetchVars>>

\* avg += duration_cast<nanoseconds>(end - start);  ++i
\* the locals of the loop body (removal_indices, back) go out of scope
Timed(w) ==
    /\ Running
    /\ wpc[w] = "timed"
    /\ \E d \in Durations : avg' = [avg EXCEPT ![w] = @ + d]
    /\ run' = [run EXCEPT ![w] = @ + 1]
    /\ wpc' = [wpc EXCEPT ![w] = "loop"]
    /\ removal_indices' = [removal_indices EXCEPT ![w] = <<>>]
    /\ back' = [back EXCEPT ![w] = 0]
    /\ pos' = [pos EXCEPT ![w] = 0]
    /\ UNCHANGED <<INT_SET, gen, seq, promise,
                   mpc, num_vals, block_end, durations, output, failed, ub,
                   lastOp, inserted, onlyInserts, passes, block_start,
                   argVars, fetchVars>>

\* variant: the promise is set from inside the loop, after the first run
SetValue_InsideLoop(w) ==
    /\ Running
    /\ wpc[w] = "loop"
    /\ run[w] >= 1
    /\ promise' = [promise EXCEPT
                     ![w] = set_value(@, avg[w] \div DEFAULT_RUNS_PER_TEST)]
    /\ wpc' = [wpc EXCEPT ![w] = "return"]
    /\ UNCHANGED <<INT_SET, gen, seq, run, removal_indices, back, pos, avg,
                   mpc, num_vals, block_end, durations, output, failed, ub,
                   lastOp, inserted, onlyInserts, passes, block_start,
                   argVars, fetchVars>>

\* after the loop: result = avg / num_runs;  promise.set_value(result)
SetValue(w) ==
    /\ Running
    /\ wpc[w] = "loop"
    /\ ~(run[w] < DEFAULT_RUNS_PER_TEST)
    /\ promise' = [promise EXCEPT
                     ![w] = set_value(@, avg[w] \div DEFAULT_RUNS_PER_TEST)]
    /\ wpc' = [wpc EXCEPT ![w] = "return"]
    /\ UNCHANGED <<INT_SET, gen, seq, run, removal_indices, back, pos, avg,
                   mpc, num_vals, block_end, durations, output, failed, ub,
                   lastOp, inserted, onlyInserts, passes, block_start,
                   argVars, fetchVars>>

\* return result: the thread function returns and the thread ends
WorkerReturn(w) ==
    /\ Running
    /\ wpc[w] = "return"
    /\ wpc' = [wpc EXCEPT ![w] = "terminated"]
    /\ UNCHANGED <<INT_SET, gen, seq, run, removal_indices, back, pos, avg,
                   promise, mpc, num_vals, block_end, durations, output,
                   failed, ub, lastOp, inserted, onlyInserts, passes, block_start,
                   argVars, fetchVars>>

(***************************************************************************)
(* The main thread: test_block and test_n (lvv.cpp)                        *)
(***************************************************************************)
FreshPromise == [sets |-> 0, value |-> 0]

\* make_pair(vec_duration, list_duration)
MakePair(vec_duration, list_duration) == <<vec_duration, list_duration>>

\* variant: the fourth field is the array-backed minus the node-backed mean
Row_VecMinusList(i, pair) == <<i, pair[1], pair[2], pair[1] - pair[2]>>

\* the row test_block writes for i and the pair returned by test_n
Row(i, pair) == <<i, pair[1], pair[2], pair[2] - pair[1]>>

\* for(size_t i = start; i < end; i++): call test_n(i), or leave the loop
TestBlockLoop ==
    /\ Running
    /\ mpc = "block"
    /\ mpc' = IF num_vals < block_end THEN "test_n" ELSE "close"
    /\ UNCHANGED <<INT_SET, gen, seq, wpc, run, removal_indices, back, pos,
                   avg, promise, num_vals, block_end, durations, output,
                   failed, ub, lastOp, inserted, onlyInserts, passes, block_start,
                   argVars, fetchVars>>

\* variant: test_n without its assertion
TestNEnter_NoAssert ==
    /\ Running
    /\ mpc = "test_n"
    /\ mpc' = "spawn_vec"
    /\ seq' = [w \in Workers |-> <<>>]
    /\ promise' = [w \in Workers |-> FreshPromise]
    /\ durations' = <<0, 0>>
    /\ wpc' = [w \in Workers |-> "idle"]
    /\ UNCHANGED <<INT_SET, gen, run, removal_indices, back, pos, avg,
                   num_vals, block_end, output, failed, ub, lastOp, inserted,
                   onlyInserts, passes, block_start, argVars, fetchVars>>

\* test_n: assert(INT_SET.size() >= num_vals); v, l, the promises and futures
TestNEnter ==
    /\ Running
    /\ mpc = "test_n"
    /\ IF Len(INT_SET) >= num_vals
       THEN mpc' = "spawn_vec" /\ failed' = failed
       ELSE mpc' = mpc /\ failed' = "assert"
    /\ seq' = [w \in Workers |-> <<>>]
    /\ promise' = [w \in Workers |-> FreshPromise]
    /\ durations' = <<0, 0>>
    /\ wpc' = [w \in Workers |-> "idle"]
    /\ UNCHANGED <<INT_SET, gen, run, removal_indices, back, pos, avg,
                   num_vals, block_end, output, ub, lastOp, inserted,
                   onlyInserts, passes, block_start,
                   argVars, fetchVars>>

\* jthread vec_thread(test_n_, ref(v), ...) / jthread list_thread(...):
\* the worker starts with avg{0} and i = 0
Spawn(w) ==
    /\ Running
    /\ mpc = (IF w = "vec" THEN "spawn_vec" ELSE "spawn_list")
    /\ mpc' = (IF w = "vec" THEN "spawn_list" ELSE "get_vec")
    /\ wpc' = [wpc EXCEPT ![w] = "loop"]
    /\ run' = [run EXCEPT ![w] = 0]
    /\ avg' = [avg EXCEPT ![w] = 0]
    /\ passes' = [passes EXCEPT ![w] = 0]
    /\ UNCHANGED <<INT_SET, gen, seq, removal_indices, back, pos, promise,
                   num_vals, block_end, durations, output, failed, ub,
                   lastOp, inserted, onlyInserts, block_start,
                   argVars, fetchVars>>

\* vec_duration = vec_future.get()
GetVec ==
    /\ Running
    /\ mpc = "get_vec"
    /\ FutureReady(promise["vec"])
    /\ durations' = <<promise["vec"].value, durations[2]>>
    /\ mpc' = "get_list"
    /\ UNCHANGED <<INT_SET, gen, seq, wpc, run, removal_indices, back, pos,
                   avg, promise, num_vals, block_end, output, failed, ub,
                   lastOp, inserted, onlyInserts, passes, block_start,
                   argVars, fetchVars>>

\* list_duration = list_future.get();  the pair to return is built
GetList ==
    /\ Running
    /\ mpc = "get_list"
    /\ FutureReady(promise["list"])
    /\ durations' = MakePair(durations[1], promise["list"].value)
    /\ mpc' = "join_list"
    /\ UNCHANGED <<INT_SET, gen, seq, wpc, run, removal_indices, back, pos,
                   avg, promise, num_vals, block_end, output, failed, ub,
                   lastOp, inserted, onlyInserts, passes, block_start,
                   argVars, fetchVars>>

\* variant: the threads are detached, leaving test_n does not wait for them
Join_NoWait(w) ==
    /\ Running
    /\ mpc = (IF w = "list" THEN "join_list" ELSE "join_vec")
    /\ mpc' = (IF w = "list" THEN "join_vec" ELSE "row")
    /\ UNCHANGED <<INT_SET, gen, seq, wpc, run, removal_indices, back, pos,
                   avg, promise, num_vals, block_end, durations, output,
                   failed, ub, lastOp, inserted, onlyInserts, passes, block_start,
                   argVars, fetchVars>>

\* leaving test_n: ~jthread joins list_thread, then vec_thread
Join(w) ==
    /\ Running
    /\ mpc = (IF w = "list" THEN "join_list" ELSE "join_vec")
    /\ wpc[w] = "terminated"
    /\ mpc' = (IF w = "list" THEN "join_vec" ELSE "row")
    /\ UNCHANGED <<INT_SET, gen, seq, wpc, run, removal_indices, back, pos,
                   avg, promise, num_vals, block_end, durations, output,
                   failed, ub, lastOp, inserted, onlyInserts, passes, block_start,
                   argVars, fetchVars>>

\* test_n has returned: test_block writes the row and increments i
WriteRow ==
    /\ Running
    /\ mpc = "row"
    /\ output' = Append(output, Row(num_vals, durations))
    /\ num_vals' = num_vals + 1
    /\ mpc' = "block"
    /\ UNCHANGED <<INT_SET, gen, seq, wpc, run, removal_indices, back, pos,
                   avg, promise, block_end, durations, failed, ub, lastOp,
                   inserted, onlyInserts, passes, block_start,
                   argVars, fetchVars>>

(***************************************************************************)
(* Spec: test_block(start, end) on a universe INT_SET.  main calls         *)
(* test_block(0, num_tests) with num_tests <= MAX_TESTS; test_n is also    *)
(* declared in lvv.h for other callers, so the sweep may start at any N.   *)
(***************************************************************************)
Init ==
    /\ INT_SET \in Universes
    /\ block_end \in 0..MaxTests
    /\ num_vals \in 0..block_end
    /\ gen = [seededBy |-> "init", usedBy |-> {}]
    /\ seq = [w \in Workers |-> <<>>]
    /\ wpc = [w \in Workers |-> "idle"]
    /\ run = [w \in Workers |-> 0]
    /\ removal_indices = [w \in Workers |-> <<>>]
    /\ back = [w \in Workers |-> 0]
    /\ pos = [w \in Workers |-> 0]
    /\ avg = [w \in Workers |-> 0]
    /\ promise = [w \in Workers |-> FreshPromise]
    /\ mpc = "block"
    /\ durations = <<0, 0>>
    /\ output = <<>>
    /\ failed = "no"
    /\ ub = FALSE
    /\ lastOp = NoOp
    /\ inserted = {}
    /\ onlyInserts = TRUE
    /\ passes = [w \in Workers |-> 0]
    /\ block_start = num_vals
    /\ IdleArgs
    /\ IdleFetch

Next ==
    \/ TestBlockLoop
    \/ TestNEnter
    \/ \E w \in Workers : Spawn(w)
    \/ GetVec
    \/ GetList
    \/ \E w \in Workers : Join(w)
    \/ WriteRow
    \/ \E w \in Workers : Reseed(w)
    \/ \E w \in Workers : Draw(w)
    \/ \E w \in Workers : SanityCheck(w)
    \/ \E w \in Workers : CoreEnter(w)
    \/ \E w \in Workers : CoreInsert(w)
    \/ \E w \in Workers : CoreRemove(w)
    \/ \E w \in Workers : Timed(w)
    \/ \E w \in Workers : SetValue(w)
    \/ \E w \in Workers : WorkerReturn(w)

Spec == Init /\ [][Next]_vars

TypeOK ==
    /\ INT_SET \in Universes
    /\ failed \in {"no", "assert", "crash"}
    /\ \A w \in Workers : back[w] \in 0..SIZE_MAX

(***************************************************************************)
(* SpecCore: test_n_core_(seq, removal_indices) run side by side on a      *)
(* VectorAdaptor and a ListAdaptor, both empty, with the same universe and *)
(* the same removal plan.  The plans are those valid for their length      *)
(* (entry i < length - i); the plans test_n_ builds are among them.        *)
(***************************************************************************)
CoreUniverses == UNION {InjectiveSeqs(1..CoreMaxVal, n) : n \in 0..CoreMaxLen}

ValidPlansOfLen(n) ==
    {p \in [1..n -> 0..(n - 1)] : \A i \in 1..n : p[i] <= n - i}

ValidPlans == UNION {ValidPlansOfLen(n) : n \in 0..CoreMaxLen}

\* number of steps of test_n_core_ worker w has taken
Steps(w) ==
    CASE wpc[w] = "core" -> 0
      [] wpc[w] = "insert" -> 1 + pos[w]
      [] wpc[w] = "remove" -> 1 + Len(removal_indices[w]) + pos[w]
      [] OTHER -> 1 + 2 * Len(removal_indices[w])

\* side by side: the vector takes a step, then the list takes the same step
Turn(w) ==
    IF w = "vec" THEN Steps("vec") = Steps("list")
    ELSE Steps("list") < Steps("vec")

InitCore ==
    /\ INT_SET \in CoreUniverses
    /\ \E p \in ValidPlans : removal_indices = [w \in Workers |-> p]
    /\ gen = [seededBy |-> "init", usedBy |-> {}]
    /\ seq = [w \in Workers |-> <<>>]
    /\ wpc = [w \in Workers |-> "core"]
    /\ run = [w \in Workers |-> 0]
    /\ back = [w \in Workers |-> 0]
    /\ pos = [w \in Workers |-> 0]
    /\ avg = [w \in Workers |-> 0]
    /\ promise = [w \in Workers |-> FreshPromise]
    /\ mpc = "core_harness"
    /\ num_vals = 0
    /\ block_end = 0
    /\ durations = <<0, 0>>
    /\ output = <<>>
    /\ failed = "no"
    /\ ub = FALSE
    /\ lastOp = NoOp
    /\ inserted = {}
    /\ onlyInserts = TRUE
    /\ passes = [w \in Workers |-> 0]
    /\ block_start = num_vals
    /\ IdleArgs
    /\ IdleFetch

NextCore ==
    \E w \in Workers :
        /\ Turn(w)
        /\ (CoreEnter(w) \/ CoreInsert(w) \/ CoreRemove(w))

SpecCore == InitCore /\ [][NextCore]_vars

(***************************************************************************)
(* SpecOps: the IntegerSequence operations, each call made on a            *)
(* VectorAdaptor v and on a ListAdaptor l, both initially empty.           *)
(***************************************************************************)
InitOps ==
    /\ INT_SET = <<>>
    /\ removal_indices = [w \in Workers |-> <<>>]
    /\ gen = [seededBy |-> "init", usedBy |-> {}]
    /\ seq = [w \in Workers |-> <<>>]
    /\ wpc = [w \in Workers |-> "idle"]
    /\ run = [w \in Workers |-> 0]
    /\ back = [w \in Workers |-> 0]
    /\ pos = [w \in Workers |-> 0]
    /\ avg = [w \in Workers |-> 0]
    /\ promise = [w \in Workers |-> FreshPromise]
    /\ mpc = "ops_harness"
    /\ num_vals = 0
    /\ block_end = 0
    /\ durations = <<0, 0>>
    /\ output = <<>>
    /\ failed = "no"
    /\ ub = FALSE
    /\ lastOp = NoOp
    /\ inserted = {}
    /\ onlyInserts = TRUE
    /\ passes = [w \in Workers |-> 0]
    /\ block_start = num_vals
    /\ IdleArgs
    /\ IdleFetch

OpsEnabled ==
    /\ Running
    /\ ~ub
    /\ mpc = "ops_harness"

OpsFrame ==
    UNCHANGED <<INT_SET, gen, wpc, run, removal_indices, back, pos, avg,
                promise, mpc, num_vals, block_end, durations, output,
                passes, block_start, argVars, fetchVars>>

\* v.insert_numerical(n); l.insert_numerical(n)
OpInsertNumerical(n) ==
    /\ OpsEnabled
    /\ \A w \in Workers : Len(seq[w]) < MaxOps
    /\ seq' = [w \in Workers |-> insert_numerical(w, seq[w], n)]
    /\ lastOp' = [op |-> "insert_numerical", arg |-> n]
    /\ inserted' = inserted \cup {n}
    /\ onlyInserts' = (onlyInserts /\ n \notin inserted)
    /\ UNCHANGED <<failed, ub>>
    /\ OpsFrame

\* v.push_back(n); l.push_back(n)
OpPushBack(n) ==
    /\ OpsEnabled
    /\ \A w \in Workers : Len(seq[w]) < MaxOps
    /\ seq' = [w \in Workers |-> push_back(w, seq[w], n)]
    /\ lastOp' = [op |-> "push_back", arg |-> n]
    /\ onlyInserts' = FALSE
    /\ UNCHANGED <<failed, ub, inserted>>
    /\ OpsFrame

\* v.push_front(n); l.push_front(n)
OpPushFront(n) ==
    /\ OpsEnabled
    /\ \A w \in Workers : Len(seq[w]) < MaxOps
    /\ seq' = [w \in Workers |-> push_front(w, seq[w], n)]
    /\ lastOp' = [op |-> "push_front", arg |-> n]
    /\ onlyInserts' = FALSE
    /\ UNCHANGED <<failed, ub, inserted>>
    /\ OpsFrame

\* v.remove(i); l.remove(i)  for any size_t i, in range or not
OpRemove(i) ==
    /\ OpsEnabled
    /\ \E f \in [Workers -> UNION {RemoveOutcomes(w, seq[w], i) : w \in Workers}] :
          /\ \A w \in Workers : f[w] \in RemoveOutcomes(w, seq[w], i)
          /\ seq' = f
    /\ lastOp' = [op |-> "remove", arg |-> i]
    /\ onlyInserts' = FALSE
    /\ IF \A w \in Workers : i < Len(seq[w])
       THEN ub' = ub /\ failed' = failed
       ELSE ub' = TRUE /\ failed' \in {failed, "crash"}
    /\ UNCHANGED inserted
    /\ OpsFrame

NextOps ==
    \/ \E n \in OpsValues : OpInsertNumerical(n)
    \/ \E n \in OpsValues : OpPushBack(n)
    \/ \E n \in OpsValues : OpPushFront(n)
    \/ \E i \in 0..MaxOps : OpRemove(i)

SpecOps == InitOps /\ [][NextOps]_vars


(***************************************************************************)
(* Claims checked under Spec                                               *)
(***************************************************************************)
\* positions of test_n_ at which the removal plan of the run is complete
PlanBuilt == {"core", "insert", "remove", "timed"}

\* C1 (as claimed): the removal plan test_n_ builds for num_vals = N has
\* length exactly N, its entry i (0-indexed) lies in [0, N-1-i], and its
\* entry N-1 is 0.
C1_PlanHasLengthN ==
    \A w \in Workers :
        wpc[w] \in PlanBuilt =>
            /\ Len(removal_indices[w]) = num_vals
            /\ \A i \in 0..(num_vals - 1) :
                  /\ i + 1 \in DOMAIN removal_indices[w]
                  /\ removal_indices[w][i + 1] \in 0..(num_vals - 1 - i)
            /\ num_vals >= 1 => removal_indices[w][num_vals] = 0

C3_EmptyAfterRemoval ==
    \A w \in Workers : wpc[w] = "timed" => (seq[w] = <<>> /\ Len(seq[w]) = 0)

\* both workers have finished the removal phase of a pass with N >= 1
C3_Witness ==
    /\ num_vals >= 1
    /\ \A w \in Workers : wpc[w] = "timed" /\ pos[w] >= 2

\* C4 (as claimed): Phase 1 of a core pass of test_n(N) inserts exactly the
\* first N values of the universe's iteration order, so size() = N after it.
C4_PhaseOneInsertsN ==
    \A w \in Workers :
        (wpc[w] = "remove" /\ pos[w] = 0) =>
            /\ Len(seq[w]) = num_vals
            /\ num_vals <= Len(INT_SET)
            /\ Range(seq[w]) = {INT_SET[i] : i \in 1..num_vals}

\* C9: each worker sets its promise at most once, sets it only after all
\* num_runs repetitions have finished, and has set it exactly once when it
\* returns; test_n returns only when both promises were set exactly once.
C9_PromiseSetOnce ==
    /\ \A w \in Workers :
          /\ promise[w].sets <= 1
          /\ promise[w].sets = 1 =>
                (run[w] = DEFAULT_RUNS_PER_TEST /\ wpc[w] \in {"return", "terminated"})
          /\ wpc[w] \in {"return", "terminated"} => promise[w].sets = 1
    /\ mpc = "row" => \A w \in Workers : promise[w].sets = 1

\* test_n has returned for an N >= 1 after both workers ran to their end
C9_Witness ==
    /\ mpc = "row"
    /\ num_vals >= 1
    /\ \A w \in Workers : wpc[w] = "terminated" /\ promise[w].sets = 1

\* C10: once test_n has built the pair it returns, both workers have set
\* their value, and the pair is (array-backed value, node-backed value).
C10_ReturnsAfterBoth ==
    mpc \in {"join_list", "join_vec", "row"} =>
        /\ \A w \in Workers : promise[w].sets >= 1
        /\ durations = <<promise["vec"].value, promise["list"].value>>

\* test_n has returned a pair whose two values differ
C10_Witness ==
    /\ mpc = "row"
    /\ durations[1] # durations[2]
    /\ durations[1] = promise["vec"].value

(***************************************************************************)
(* Claims checked under SpecCore                                           *)
(***************************************************************************)
\* C5: given the same universe prefix and the same removal plan, the
\* array-backed and the node-backed sequence hold the same ordered contents
\* after every insert_numerical and remove step, and both end empty.
C5_SameContentsEveryStep ==
    /\ Steps("vec") = Steps("list") => seq["vec"] = seq["list"]
    /\ \A w \in Workers : wpc[w] = "timed" => seq[w] = <<>>

\* both variants have gone through a pass of at least three values
C5_Witness ==
    /\ \A w \in Workers : wpc[w] = "timed"
    /\ Len(removal_indices["vec"]) >= 3
    /\ removal_indices["vec"][1] = 1

\* the states of the worked example, by the number of steps taken
C8_Expected ==
    << <<>>, <<>>, <<5>>, <<1, 5>>, <<1, 4, 5>>, <<1, 2, 4, 5>>,
       <<1, 4, 5>>, <<1, 4>>, <<4>>, <<>> >>

C8_Example ==
    /\ INT_SET = <<5, 1, 4, 2>>
    /\ \A w \in Workers : removal_indices[w] = <<1, 2, 0, 0>>

\* C8: worked example, both variants: inserting 5, 1, 4, 2 gives [5], [1,5],
\* [1,4,5], [1,2,4,5]; the removal plan [1,2,0,0] then gives [1,4,5], [1,4],
\* [4], [].
C8_WorkedExample ==
    C8_Example => \A w \in Workers : seq[w] = C8_Expected[Steps(w) + 1]

\* both variants have run the whole worked example
C8_Witness ==
    /\ C8_Example
    /\ \A w \in Workers : wpc[w] = "timed" /\ Steps(w) = 9

(***************************************************************************)
(* Claims checked under SpecOps                                            *)
(***************************************************************************)
\* s2 is s with n placed at the first position whose value is >= n
PlacedAtFirstNotLess(s, n, s2) ==
    \E p \in 1..(Len(s) + 1) :
        /\ \A j \in 1..(p - 1) : s[j] < n
        /\ p <= Len(s) => s[p] >= n
        /\ Len(s2) = Len(s) + 1
        /\ s2[p] = n
        /\ \A j \in 1..(p - 1) : s2[j] = s[j]
        /\ \A j \in p..Len(s) : s2[j + 1] = s[j]

C6_Contents ==
    onlyInserts =>
        \A w \in Workers :
            /\ Len(seq[w]) = Cardinality(inserted)
            /\ Range(seq[w]) = inserted
            /\ StrictlyAscending(seq[w])

C6_Placement ==
    (onlyInserts' /\ lastOp'.op = "insert_numerical") =>
        \A w \in Workers : PlacedAtFirstNotLess(seq[w], lastOp'.arg, seq'[w])

\* C6: for both variants, starting from an empty sequence, after
\* insert_numerical of k distinct values in any order size() = k and the
\* contents are exactly those values in strictly ascending order; each value
\* is placed at the first position whose current value is >= it.
C6_InsertNumericalSorted == [](C6_Contents) /\ [][C6_Placement]_vars

\* three distinct values were inserted, the smallest of them last
C6_Witness ==
    /\ onlyInserts
    /\ Cardinality(inserted) = 3
    /\ lastOp = [op |-> "insert_numerical", arg |-> 1]
    /\ \A w \in Workers : Len(seq[w]) = 3

\* s2 is s without its element at (0-based) position i, the rest in order
RemovedAt(s, i, s2) ==
    /\ Len(s2) = Len(s) - 1
    /\ \A j \in 1..i : s2[j] = s[j]
    /\ \A j \in (i + 1)..(Len(s) - 1) : s2[j] = s[j + 1]

\* C7: for both variants and every i with 0 <= i < size(), remove(i)
\* decreases size() by exactly 1, removes exactly the element at position i
\* and leaves all other elements present and in the same relative order.
C7_RemoveAtIndex ==
    [][lastOp'.op = "remove" =>
          \A w \in Workers :
              lastOp'.arg < Len(seq[w]) => RemovedAt(seq[w], lastOp'.arg, seq'[w])]_vars

\* an element that is neither the first nor the last has been removed
C7_Witness ==
    /\ lastOp = [op |-> "remove", arg |-> 1]
    /\ ~ub
    /\ \A w \in Workers : Len(seq[w]) >= 2 /\ seq[w][1] < seq[w][2]

(***************************************************************************)
(* Claims checked under Spec, continued                                    *)
(***************************************************************************)
\* the next step of worker w reseeds gen or draws from it
AccessesGen(w) ==
    \/ wpc[w] = "loop" /\ run[w] < DEFAULT_RUNS_PER_TEST
    \/ wpc[w] = "gen" /\ PlanLoopCond(back[w])

\* C11 (as claimed): each worker draws from its own random-number stream:
\* in no reachable state are both workers about to reseed or draw from the
\* same generator without synchronization, and no generator state is drawn
\* from by both workers.
C11_NoRaceOnGen ==
    /\ ~(AccessesGen("vec") /\ AccessesGen("list"))
    /\ gen.usedBy # Workers

\* a worker inside test_n_core_ has one more pass started than finished
PassesStarted(w) ==
    run[w] + (IF wpc[w] \in {"insert", "remove", "timed"} THEN 1 ELSE 0)

\* C12 (as claimed): for repeats = R each worker executes the Benchmark Core
\* exactly R + 1 times, one warm-up pass and then R timed passes.
C12_WarmupThenTimed ==
    \A w \in Workers :
        wpc[w] \in {"return", "terminated"} =>
            passes[w] = DEFAULT_RUNS_PER_TEST + 1

\* C12 (amended): for repeats = R each worker executes the Benchmark Core
\* exactly R times and there is no warm-up pass: every pass is timed, the
\* durations of all R passes are summed and the reported mean is sum / R
\* (as long as no assertion has failed and nothing has crashed).
C12_AllPassesTimed ==
    \A w \in Workers :
        (Running /\ wpc[w] # "idle") =>
            /\ passes[w] = PassesStarted(w)
            /\ passes[w] <= DEFAULT_RUNS_PER_TEST
            /\ avg[w] >= run[w] /\ avg[w] <= 2 * run[w]
            /\ wpc[w] \in {"return", "terminated"} =>
                  /\ passes[w] = DEFAULT_RUNS_PER_TEST
                  /\ run[w] = DEFAULT_RUNS_PER_TEST
                  /\ promise[w].value = avg[w] \div DEFAULT_RUNS_PER_TEST

\* a worker has reported the mean of three long passes
C12_Witness ==
    \E w \in Workers :
        /\ wpc[w] = "terminated"
        /\ passes[w] = DEFAULT_RUNS_PER_TEST
        /\ avg[w] = 2 * DEFAULT_RUNS_PER_TEST
        /\ promise[w].value = 2

\* C13: when a core pass begins (any repetition, any N, both variants) the
\* sequence is empty: it holds no element of an earlier repetition or of
\* the measurement of an earlier N.
C13_PassStartsEmpty ==
    \A w \in Workers :
        (wpc[w] = "core" \/ (wpc[w] = "insert" /\ pos[w] = 0)) => seq[w] = <<>>

\* a later repetition of a measurement with N >= 1 begins, after an earlier
\* N has been measured
C13_Witness ==
    /\ output # <<>>
    /\ num_vals >= 1
    /\ \E w \in Workers : wpc[w] = "core" /\ run[w] >= 1

C15_NothingInserted ==
    num_vals > Len(INT_SET) =>
        /\ mpc \in {"block", "test_n", "close"}
        /\ \A w \in Workers : seq[w] = <<>> /\ wpc[w] = "idle" /\ passes[w] = 0

C15_AssertFails ==
    (mpc = "test_n" /\ num_vals > Len(INT_SET)) => failed' = "assert"

\* C15: when test_n is requested with N greater than the number of values
\* in the universe, its next step is the assertion failure, and no worker
\* is started and no insert_numerical performed for that N.
C15_TooLargeNAsserts == [](C15_NothingInserted) /\ [][C15_AssertFails]_vars

\* test_n(N) with N above the size of the universe has failed its assertion
C15_Witness ==
    /\ num_vals > Len(INT_SET)
    /\ mpc = "test_n"
    /\ failed = "assert"

(***************************************************************************)
(* Claims checked under SpecOps, continued                                 *)
(***************************************************************************)
\* C19 (as claimed): for both variants a call remove(i) with i >= size() is
\* detected and ends in the assertion-failure state; it never returns
\* normally.
C19_RemoveOutOfRangeAsserts ==
    (lastOp.op = "remove" /\ ub) => failed = "assert"

(***************************************************************************)
(* SpecArgs: main from its entry to the call of test_block, for every      *)
(* argument vector over a small alphabet.  A string is a sequence of       *)
(* characters.                                                             *)
(***************************************************************************)
Chars == {"-", "0", "1", "3", "x"}

Digits == {"0", "1", "3"}

DigitVal(c) == CASE c = "0" -> 0 [] c = "1" -> 1 [] c = "3" -> 3

RECURSIVE StringsOfLen(_)
StringsOfLen(n) ==
    IF n = 0 THEN {<<>>}
    ELSE {<<c>> \o s : c \in Chars, s \in StringsOfLen(n - 1)}

\* argv[0]
Prog == <<"l", "v", "v">>

\* the strings an argument may be
ArgStrings == UNION {StringsOfLen(n) : n \in 0..MaxArgLen}

\* argv[0], then no, one or two arguments (and the empty vector)
ArgVectors ==
    {<<>>, <<Prog>>}
        \cup {<<Prog, a>> : a \in ArgStrings}
        \cup {<<Prog, a, b>> : a \in ArgStrings, b \in ArgStrings}

\* MAX_TESTS and DEFAULT_NUM_TESTS (1'000'000 and 10'000), scaled to the
\* sweeps of the model; DEFAULT_NUM_TESTS stays below MAX_TESTS
MAX_TESTS == MaxTests

DEFAULT_NUM_TESTS == MaxTests - 1

\* number of leading decimal digits of s
RECURSIVE DigitPrefixLen(_)
DigitPrefixLen(s) ==
    IF s # <<>> /\ Head(s) \in Digits THEN 1 + DigitPrefixLen(Tail(s)) ELSE 0

\* value of the first n characters of s, all digits, read in base 10
RECURSIVE DecimalValue(_, _)
DecimalValue(s, n) ==
    IF n = 0 THEN 0 ELSE 10 * DecimalValue(s, n - 1) + DigitVal(s[n])

\* std::stoi(str): an optional sign, then the longest run of digits; what
\* follows the digits is ignored; without a digit it throws
\* std::invalid_argument
stoi(s) ==
    LET neg  == s # <<>> /\ Head(s) = "-"
        body == IF neg THEN Tail(s) ELSE s
        n    == DigitPrefixLen(body)
    IN  IF n = 0 THEN [throws |-> TRUE, val |-> 0]
        ELSE [throws |-> FALSE,
              val |-> IF neg THEN 0 - DecimalValue(body, n)
                      ELSE DecimalValue(body, n)]

\* exit(1) after the message m on cerr
ExitWith(m) ==
    /\ cerr' = m
    /\ exit_code' = "1"
    /\ mpc' = "exited"
    /\ UNCHANGED <<block_end, failed>>

\* size_t num_tests = lvv_parse_args(vector<string>{argv, argv + argc})
ParseArgs ==
    /\ Running
    /\ mpc = "parse_args"
    /\ IF Len(argv) < 1
       THEN /\ failed' = "assert"
            /\ UNCHANGED <<cerr, exit_code, mpc, block_end>>
       ELSE IF Len(argv) = 1
       THEN /\ block_end' = DEFAULT_NUM_TESTS
            /\ mpc' = "open"
            /\ UNCHANGED <<cerr, exit_code, failed>>
       ELSE IF Len(argv) > 2
       THEN ExitWith("Usage")
       ELSE LET tests == stoi(argv[2]) IN
            IF tests.throws
            THEN \* uncaught std::invalid_argument: std::terminate, abort
                 /\ cerr' = "terminate"
                 /\ exit_code' = "SIGABRT"
                 /\ mpc' = "exited"
                 /\ UNCHANGED <<block_end, failed>>
            ELSE IF tests.val < 0
            THEN ExitWith("must be non-negative")
            ELSE IF tests.val > MAX_TESTS
            THEN ExitWith("must be less than")
            ELSE /\ block_end' = tests.val
                 /\ mpc' = "open"
                 /\ UNCHANGED <<cerr, exit_code, failed>>
    /\ UNCHANGED <<INT_SET, gen, seq, wpc, run, removal_indices, back, pos,
                   avg, promise, num_vals, durations, output, ub, lastOp,
                   inserted, onlyInserts, passes, block_start, argv, outfile,
                   fetchVars>>

\* std::ofstream outfile("out.csv"); the header line; test_block(0, ...)
OpenOutfile ==
    /\ Running
    /\ mpc = "open"
    /\ outfile' = TRUE
    /\ output' = <<>>
    /\ num_vals' = 0
    /\ block_start' = 0
    /\ mpc' = "block"
    /\ UNCHANGED <<INT_SET, gen, seq, wpc, run, removal_indices, back, pos,
                   avg, promise, block_end, durations, failed, ub, lastOp,
                   inserted, onlyInserts, passes, argv, exit_code, cerr,
                   fetchVars>>

InitArgs ==
    /\ INT_SET = <<>>
    /\ removal_indices = [w \in Workers |-> <<>>]
    /\ gen = [seededBy |-> "init", usedBy |-> {}]
    /\ seq = [w \in Workers |-> <<>>]
    /\ wpc = [w \in Workers |-> "idle"]
    /\ run = [w \in Workers |-> 0]
    /\ back = [w \in Workers |-> 0]
    /\ pos = [w \in Workers |-> 0]
    /\ avg = [w \in Workers |-> 0]
    /\ promise = [w \in Workers |-> FreshPromise]
    /\ mpc = "parse_args"
    /\ num_vals = 0
    /\ block_end = 0
    /\ durations = <<0, 0>>
    /\ output = <<>>
    /\ failed = "no"
    /\ ub = FALSE
    /\ lastOp = NoOp
    /\ inserted = {}
    /\ onlyInserts = TRUE
    /\ passes = [w \in Workers |-> 0]
    /\ block_start = 0
    /\ argv \in ArgVectors
    /\ exit_code = "none"
    /\ cerr = "none"
    /\ outfile = FALSE
    /\ IdleFetch

NextArgs == ParseArgs \/ OpenOutfile

SpecArgs == InitArgs /\ [][NextArgs]_vars

\* s is an integer in decimal notation: an optional sign, then digits only
IsInteger(s) ==
    LET body == IF s # <<>> /\ Head(s) = "-" THEN Tail(s) ELSE s
    IN  body # <<>> /\ DigitPrefixLen(body) = Len(body)

\* the argument vectors the specification rejects
BadArgv(a) ==
    \/ Len(a) > 2
    \/ /\ Len(a) = 2
       /\ \/ ~IsInteger(a[2])
          \/ stoi(a[2]).val < 0
          \/ stoi(a[2]).val > MAX_TESTS

\* C16 (as claimed): for every argument vector with more than one
\* argument, a non-integer argument, a negative value or a value above
\* MAX_TESTS, the program writes a message to the error stream and exits
\* non-zero, before the output file is opened.
C16_BadArgsRejected ==
    (BadArgv(argv) /\ mpc # "parse_args") =>
        /\ cerr \in {"Usage", "must be non-negative", "must be less than"}
        /\ exit_code = "1"
        /\ ~outfile

(***************************************************************************)
(* SpecFetch: fetch_int_set(min_num_ints), as the initializer of INT_SET   *)
(* calls it, for every small pool file (or none) and every small           *)
(* min_num_ints.  INT_MIN and INT_MAX are scaled to -MaxInt-1 and MaxInt.  *)
(***************************************************************************)
INT_MIN == 0 - MaxInt - 1

INT_MAX == MaxInt

\* the lines a pool file may hold
DbLines == StringsOfLen(1)

RECURSIVE LineSeqs(_)
LineSeqs(n) ==
    IF n = 0 THEN {<<>>}
    ELSE {<<l>> \o ls : l \in DbLines, ls \in LineSeqs(n - 1)}

DbFiles == {NoFile} \cup {FileOf(ls) : ls \in UNION {LineSeqs(n) : n \in 0..MaxDbLines}}

\* db::read_int_db: nullopt if the file does not open, else the set of
\* stoi(line) over its lines; an exception of stoi leaves the function
read_int_db(f) ==
    IF ~f.opens THEN [throws |-> FALSE, opt |-> nullopt]
    ELSE IF \E i \in DOMAIN f.lines : stoi(f.lines[i]).throws
    THEN [throws |-> TRUE, opt |-> nullopt]
    ELSE [throws |-> FALSE,
          opt |-> Some({stoi(f.lines[i]).val : i \in DOMAIN f.lines})]

\* utils::generate_n_random_ints: while(s.size() < n)
GenerateLoopCond(s, n) == Cardinality(s) < n

\* utils::random_int(min, max): any value of [min, max]
random_int(min, max) == min..max

\* optional::value_or
value_or(opt, other) == IF opt.has_value THEN opt.s ELSE other

\* db::read_int_db(), the object expression of the call of value_or
ReadIntDb ==
    /\ Running
    /\ fpc = "read"
    /\ LET r == read_int_db(int_db) IN
          IF r.throws
          THEN \* uncaught std::invalid_argument: std::terminate
               /\ failed' = "crash"
               /\ UNCHANGED <<db_s, fpc>>
          ELSE /\ db_s' = r.opt
               /\ fpc' = "generate"
               /\ failed' = failed
    /\ UNCHANGED <<INT_SET, gen, seq, wpc, run, removal_indices, back, pos,
                   avg, promise, mpc, num_vals, block_end, durations, output,
                   ub, lastOp, inserted, onlyInserts, passes, block_start,
                   argVars, int_db, min_num_ints, gen_s>>

\* one iteration of generate_n_random_ints, the argument of value_or:
\* s.insert(random_int(min, max))
GenerateInsert ==
    /\ Running
    /\ fpc = "generate"
    /\ GenerateLoopCond(gen_s, min_num_ints)
    /\ \E v \in random_int(INT_MIN, INT_MAX) : gen_s' = gen_s \cup {v}
    /\ gen' = [gen EXCEPT !.usedBy = @ \cup {"main"}]
    /\ UNCHANGED <<INT_SET, seq, wpc, run, removal_indices, back, pos, avg,
                   promise, mpc, num_vals, block_end, durations, output,
                   failed, ub, lastOp, inserted, onlyInserts, passes,
                   block_start, argVars, int_db, min_num_ints, fpc, db_s>>

\* the end of the generation loop, value_or and the initialization of
\* INT_SET, which iterates in some order
FetchReturn ==
    /\ Running
    /\ fpc = "generate"
    /\ ~GenerateLoopCond(gen_s, min_num_ints)
    /\ LET s == value_or(db_s, gen_s) IN
          INT_SET' \in InjectiveSeqs(s, Cardinality(s))
    /\ fpc' = "done"
    /\ UNCHANGED <<gen, seq, wpc, run, removal_indices, back, pos, avg,
                   promise, mpc, num_vals, block_end, durations, output,
                   failed, ub, lastOp, inserted, onlyInserts, passes,
                   block_start, argVars, int_db, min_num_ints, db_s, gen_s>>

InitFetch ==
    /\ INT_SET = <<>>
    /\ removal_indices = [w \in Workers |-> <<>>]
    /\ gen = [seededBy |-> "init", usedBy |-> {}]
    /\ seq = [w \in Workers |-> <<>>]
    /\ wpc = [w \in Workers |-> "idle"]
    /\ run = [w \in Workers |-> 0]
    /\ back = [w \in Workers |-> 0]
    /\ pos = [w \in Workers |-> 0]
    /\ avg = [w \in Workers |-> 0]
    /\ promise = [w \in Workers |-> FreshPromise]
    /\ mpc = "static_init"
    /\ num_vals = 0
    /\ block_end = 0
    /\ durations = <<0, 0>>
    /\ output = <<>>
    /\ failed = "no"
    /\ ub = FALSE
    /\ lastOp = NoOp
    /\ inserted = {}
    /\ onlyInserts = TRUE
    /\ passes = [w \in Workers |-> 0]
    /\ block_start = 0
    /\ IdleArgs
    /\ int_db \in DbFiles
    /\ min_num_ints \in 0..MaxMinInts
    /\ fpc = "read"
    /\ db_s = nullopt
    /\ gen_s = {}

NextFetch == ReadIntDb \/ GenerateInsert \/ FetchReturn

SpecFetch == InitFetch /\ [][NextFetch]_vars

\* C17 (as claimed): the universe produced by fetch_int_set(min_num_ints)
\* has at least min_num_ints distinct integers, whether it was loaded from
\* the persisted pool or generated.
C17_UniverseLargeEnough ==
    fpc = "done" => Cardinality(Range(INT_SET)) >= min_num_ints

WorkerStep(w) ==
    \/ Reseed(w)
    \/ Draw(w)
    \/ SanityCheck(w)
    \/ CoreEnter(w)
    \/ CoreInsert(w)
    \/ CoreRemove(w)
    \/ Timed(w)
    \/ SetValue(w)
    \/ WorkerReturn(w)

\* the steps of the main thread
MainStep ==
    \/ TestBlockLoop
    \/ TestNEnter
    \/ \E w \in Workers : Spawn(w)
    \/ GetVec
    \/ GetList
    \/ \E w \in Workers : Join(w)
    \/ WriteRow

\* test_block(N, end, out) with end <= N + 1
InitOne == Init /\ block_end <= num_vals + 1

Fairness == WF_vars(MainStep) /\ \A w \in Workers : WF_vars(WorkerStep(w))

FairSpec == InitOne /\ [][Next]_vars /\ Fairness

\* outside test_n no worker thread is running
C20_WorkersJoined ==
    mpc \in {"row", "block", "test_n", "close"} =>
        \A w \in Workers : wpc[w] \in {"idle", "terminated"}

\* a test_n that has started its workers returns, unless a precondition
\* fails (or the process crashes)
C20_TestNReturns == (mpc = "spawn_vec") ~> (mpc = "row" \/ ~Running)

\* C20: under fair scheduling, and for every N for which no precondition
\* fails, test_n(N) eventually returns, and when it has returned both
\* worker threads have terminated: no worker of one N runs during the
\* measurement of the next N.
C20_ReturnsWithWorkersJoined == [](C20_WorkersJoined) /\ C20_TestNReturns

\* test_n(1) has returned after waiting for its workers
C20_Witness ==
    /\ mpc = "row"
    /\ num_vals = 1
    /\ failed = "no"
    /\ \A w \in Workers : wpc[w] = "terminated" /\ run[w] = DEFAULT_RUNS_PER_TEST

(***************************************************************************)
(* Claims checked under Spec: the random source, the sanity check, the     *)
(* largest N and the workers' private data                                 *)
(***************************************************************************)
\* C21 (as claimed): in every repetition of every worker the random source
\* is reseeded before the first draw of the repetition's plan, and up to
\* the last draw of that plan no other reseed takes place: a worker about
\* to draw draws from the source as its own reseed of this repetition left
\* it, followed by its own draws only.
C21_ReseedCoversPlan ==
    \A w \in Workers :
        (wpc[w] = "gen" /\ PlanLoopCond(back[w])) =>
            gen.seededBy = w /\ gen.usedBy \subseteq {w}

(***************************************************************************)
(* SpecPlan: the two threads of test_n(N) from the loop head of test_n_    *)
(* to its sanity check, for N up to PlanMaxN.                              *)
(***************************************************************************)
InitPlan ==
    /\ INT_SET = <<>>
    /\ removal_indices = [w \in Workers |-> <<>>]
    /\ gen = [seededBy |-> "init", usedBy |-> {}]
    /\ seq = [w \in Workers |-> <<>>]
    /\ wpc = [w \in Workers |-> "loop"]
    /\ run = [w \in Workers |-> 0]
    /\ back = [w \in Workers |-> 0]
    /\ pos = [w \in Workers |-> 0]
    /\ avg = [w \in Workers |-> 0]
    /\ promise = [w \in Workers |-> FreshPromise]
    /\ mpc = "plan_harness"
    /\ num_vals \in 0..PlanMaxN
    /\ block_end = num_vals + 1
    /\ durations = <<0, 0>>
    /\ output = <<>>
    /\ failed = "no"
    /\ ub = FALSE
    /\ lastOp = NoOp
    /\ inserted = {}
    /\ onlyInserts = TRUE
    /\ passes = [w \in Workers |-> 0]
    /\ block_start = num_vals
    /\ IdleArgs
    /\ IdleFetch

NextPlan ==
    \/ \E w \in Workers : Reseed(w)
    \/ \E w \in Workers : Draw(w)
    \/ \E w \in Workers : SanityCheck(w)

SpecPlan == InitPlan /\ [][NextPlan]_vars

\* C23: whenever test_n_ reaches its sanity check, for every N >= 0 and
\* every outcome of the draws, the plan has an entry at the position read
\* and its last entry is 0, so the check neither fails nor reads out of
\* range.
C23_SanityCheckPasses ==
    \A w \in Workers :
        (wpc[w] = "gen" /\ ~PlanLoopCond(back[w])) =>
            /\ Len(removal_indices[w]) >= 1
            /\ removal_indices[w][Len(removal_indices[w])] = 0

\* the check has been passed for N = 0 by one worker and, in another run,
\* for N = 3 after draws other than 0
C23_Witness ==
    \/ /\ num_vals = 0
       /\ wpc["vec"] = "core"
       /\ removal_indices["vec"] = <<0>>
       /\ wpc["list"] = "gen" /\ back["list"] = SIZE_MAX
    \/ /\ num_vals = 3
       /\ wpc["vec"] = "core"
       /\ removal_indices["vec"] = <<3, 2, 1, 0>>
       /\ failed = "no"

\* C24 (as claimed): for every N with 0 <= N <= |INT_SET|, N = |INT_SET|
\* included, test_n(N) runs without a precondition assertion failing in
\* test_n or in test_n_core_.
C24_NoAssertUpToUniverse ==
    num_vals <= Len(INT_SET) => failed # "assert"

\* what the other worker owns
Other(w) == CHOOSE x \in Workers : x # w

C25_Frame(w) ==
    /\ seq'[Other(w)] = seq[Other(w)]
    /\ removal_indices'[Other(w)] = removal_indices[Other(w)]
    /\ INT_SET' = INT_SET

\* C25: every step of a worker leaves the other worker's sequence and
\* removal plan unchanged, and leaves the universe INT_SET unchanged.
C25_WorkersKeepToTheirData ==
    [][\A w \in Workers : WorkerStep(w) => C25_Frame(w)]_vars

\* both workers are inside the core, at different points, on different
\* contents
C25_Witness ==
    /\ wpc["vec"] = "remove"
    /\ wpc["list"] = "insert"
    /\ seq["vec"] # seq["list"]
    /\ seq["list"] # <<>>
    /\ removal_indices["vec"] # <<>>

(***************************************************************************)
(* Claims checked under SpecOps and SpecFetch, continued                   *)
(***************************************************************************)
Ascending(s) == \A i \in 1..(Len(s) - 1) : s[i] <= s[i + 1]

\* C22 (as claimed): after any sequence of insert_numerical, push_back,
\* push_front and remove (with valid indices) applied to an initially empty
\* sequence, the contents are in ascending order, for both variants.
C22_AlwaysAscending ==
    ~ub => \A w \in Workers : Ascending(seq[w])

\* C22 (amended): insert_numerical and remove (with a valid index) applied
\* to a sequence in ascending order leave it in ascending order, for both
\* variants, so that a sequence built from empty by these two operations
\* is ascending; push_back and push_front put their value at the end and at
\* the front whatever the order.
C22_InsertRemoveKeepAscending ==
    [][\A w \in Workers :
          (/\ Ascending(seq[w])
           /\ \/ lastOp'.op = "insert_numerical"
              \/ lastOp'.op = "remove" /\ lastOp'.arg < Len(seq[w]))
              => Ascending(seq'[w])]_vars

\* insert_numerical has put a second 2 between 1 and 3, next to the first
C22_Witness ==
    /\ lastOp = [op |-> "insert_numerical", arg |-> 2]
    /\ ~ub
    /\ \A w \in Workers : seq[w] = <<1, 2, 2, 3>>

\* C26 (as claimed): when the pool file can be opened and parsed,
\* fetch_int_set performs no random generation: generate_n_random_ints is
\* not executed and the state of gen is left unchanged.
C26_NoGenerationWhenPoolRead ==
    (db_s.has_value /\ fpc \in {"generate", "done"}) =>
        gen_s = {} /\ gen.usedBy = {}

====
